---- MODULE Spec2Model ----
(***************************************************************************)
(* A model of the MySQL MCP server's gateway (class MySqlApi), of its      *)
(* record-tool argument validators and of the record-tool dispatch table.  *)
(*                                                                         *)
(* Strings are TLA+ strings drawn from a finite universe; Chars gives the  *)
(* characters of each, so that the identifier pattern is decided on the    *)
(* characters and not assumed.  Absent stands for JavaScript's undefined   *)
(* and null (the code only ever tests them with ?? and ==), BadType for a  *)
(* JSON value of a type the validator rejects.                             *)
(***************************************************************************)
EXTENDS Bags, FiniteSets, Integers, Sequences, TLC

VARIABLES
  pool,        \* MySqlApi.pool: 0 for null, else the index of a pool in pools
  session,     \* MySqlApi.session: NoSession for null, else an AuthSession
  pools,       \* every pool createPool has made, in order of creation
  inflight,    \* the calls suspended at an await, as a bag of call records
  activeFrom,  \* history: how session.database got its value
  input,       \* the call a client of the one-statement tools is about to make
  ev           \* the step just taken: the call, its outcome, the statement sent

vars == <<pool, session, pools, inflight, activeFrom, input, ev>>

----------------------------------------------------------------------------
(* Strings and their characters *)

Absent == "<absent>"
BadType == "<badtype>"

Lower ==
  {"a","b","c","d","e","f","g","h","i","j","k","l","m",
   "n","o","p","q","r","s","t","u","v","w","x","y","z"}

Upper ==
  {"A","B","C","D","E","F","G","H","I","J","K","L","M",
   "N","O","P","Q","R","S","T","U","V","W","X","Y","Z"}

Digit == {"0","1","2","3","4","5","6","7","8","9"}

Chars(s) ==
  CASE s = "" -> <<>>
    [] s = "shop" -> <<"s","h","o","p">>
    [] s = "app" -> <<"a","p","p">>
    [] s = "ghost" -> <<"g","h","o","s","t">>
    [] s = "users" -> <<"u","s","e","r","s">>
    [] s = "id" -> <<"i","d">>
    [] s = "a" -> <<"a">>
    [] s = "b" -> <<"b">>
    [] s = "email" -> <<"e","m","a","i","l">>
    [] s = "_k9" -> <<"_","k","9">>
    [] s = "Name" -> <<"N","a","m","e">>
    [] s = "9lives" -> <<"9","l","i","v","e","s">>
    [] s = "a b" -> <<"a"," ","b">>
    [] s = "a.b" -> <<"a",".","b">>
    [] s = "x'y" -> <<"x","'","y">>
    [] s = "id " -> <<"i","d"," ">>
    [] s = "x;--" -> <<"x",";","-","-">>

Strings ==
  {"", "shop", "app", "ghost", "users", "id", "email", "_k9", "Name",
   "9lives", "a b", "a.b", "x'y", "id ", "x;--"}

(* the pattern test of assertIdentifier: a letter or underscore, then letters,
   digits and underscores, over the whole string *)
IsIdentifier(value) ==
  LET cs == Chars(value) IN
    /\ Len(cs) >= 1
    /\ cs[1] \in Lower \cup Upper \cup {"_"}
    /\ \A i \in 2..Len(cs) : cs[i] \in Lower \cup Upper \cup Digit \cup {"_"}

----------------------------------------------------------------------------
(* Outcomes: a value, or one of the error classes of errors.js *)

Ok(v) == [ok |-> TRUE, kind |-> "", msg |-> "", v |-> v]
Err(kind, msg) == [ok |-> FALSE, kind |-> kind, msg |-> msg, v |-> Absent]
Pending == [ok |-> FALSE, kind |-> "pending", msg |-> "", v |-> Absent]

assertIdentifier(value, field) ==
  IF IsIdentifier(value)
    THEN Ok(value)
    ELSE Err("ValidationError", field)

----------------------------------------------------------------------------
(* The servers a pool can be opened on: their catalogs and their accounts *)

Hosts == {"h1", "h2"}

Catalog(host) == IF host = "h1" THEN {"shop", "app"} ELSE {"app"}

Tables(host, database) ==
  IF database \in Catalog(host) THEN {"users"} ELSE {}

Accepts(host, user, password) == user = "root" /\ password = "secret"

----------------------------------------------------------------------------
(* Values, mappings and optional numbers of the tool arguments *)

StrV(s) == [k |-> "str", s |-> s, n |-> 0]
IntV(n) == [k |-> "int", s |-> "", n |-> n]
NullV == [k |-> "null", s |-> "", n |-> 0]

(* a JSON object as the sequence of its entries in iteration order; NoMap is
   the missing field, BadMap a value that is not an object *)
Map(m) == [some |-> TRUE, bad |-> FALSE, m |-> m]
NoMap == [some |-> FALSE, bad |-> FALSE, m |-> <<>>]
BadMap == [some |-> TRUE, bad |-> TRUE, m |-> <<>>]

Num(n) == [some |-> TRUE, bad |-> FALSE, n |-> n]
NoNum == [some |-> FALSE, bad |-> FALSE, n |-> 0]
BadNum == [some |-> TRUE, bad |-> TRUE, n |-> 0]

(* a ?? b *)
Coalesce(a, b) == IF a # Absent THEN a ELSE b

(* !value for a string or undefined *)
Falsy(value) == value = Absent \/ value = ""

----------------------------------------------------------------------------
(* SQL text as a sequence of tokens, and the statements handed to the driver *)

Kw(s) == [t |-> "kw", v |-> s]
Id(s) == [t |-> "id", v |-> s]
Raw(s) == [t |-> "raw", v |-> s]
Ph == [t |-> "ph", v |-> "?"]

RECURSIVE JoinSeq(_, _)
JoinSeq(parts, sep) ==
  IF Len(parts) = 0 THEN <<>>
  ELSE IF Len(parts) = 1 THEN parts[1]
  ELSE parts[1] \o <<sep>> \o JoinSeq(Tail(parts), sep)

Stmt(kind, text, values, target) ==
  [kind |-> kind, text |-> text, values |-> values, target |-> target]

NoStmt == Stmt("none", <<>>, <<>>, Absent)

Out(res, stmt) == [res |-> res, stmt |-> stmt]

Fail(res) == Out(res, NoStmt)

----------------------------------------------------------------------------
(* MySqlApi: the private helpers *)

NoSession ==
  [host |-> Absent, port |-> 0, user |-> Absent, database |-> Absent,
   ssl |-> FALSE, some |-> FALSE]

(* this.session?.database *)
SessionDatabase(sess) == IF sess.some THEN sess.database ELSE Absent

(* ensureAuthenticated without its check *)
ensureAuthenticatedUnchecked(pl) == Ok(pl)

ensureAuthenticated(pl) ==
  IF pl = 0
    THEN Err("AuthError", "NotAuthenticated")
    ELSE Ok(pl)

escapeIdentifier(value, field) ==
  LET r == assertIdentifier(value, field) IN
    IF r.ok THEN Ok(Id(value)) ELSE r

(* escapeTableReference with the operands of ?? exchanged *)
escapeTableReferenceActiveFirst(table, database, sess) ==
  LET escapedTable == escapeIdentifier(table, "table")
      resolvedDatabase == Coalesce(SessionDatabase(sess), database)
      escapedDatabase == escapeIdentifier(resolvedDatabase, "database")
  IN  IF ~escapedTable.ok THEN escapedTable
      ELSE IF Falsy(resolvedDatabase) THEN Err("ValidationError", "NoDatabase")
      ELSE IF ~escapedDatabase.ok THEN escapedDatabase
      ELSE [ok |-> TRUE, kind |-> "", msg |-> "",
            v |-> <<escapedDatabase.v, Raw("."), escapedTable.v>>,
            database |-> resolvedDatabase]

escapeTableReference(table, database, sess) ==
  LET escapedTable == escapeIdentifier(table, "table")
      resolvedDatabase == Coalesce(database, SessionDatabase(sess))
      escapedDatabase == escapeIdentifier(resolvedDatabase, "database")
  IN  IF ~escapedTable.ok THEN escapedTable
      ELSE IF Falsy(resolvedDatabase) THEN Err("ValidationError", "NoDatabase")
      ELSE IF ~escapedDatabase.ok THEN escapedDatabase
      ELSE [ok |-> TRUE, kind |-> "", msg |-> "",
            v |-> <<escapedDatabase.v, Raw("."), escapedTable.v>>,
            database |-> resolvedDatabase]

resolveDatabase(database, sess) ==
  LET resolved == Coalesce(database, SessionDatabase(sess)) IN
    IF Falsy(resolved) THEN Err("ValidationError", "NoDatabase")
    ELSE assertIdentifier(resolved, "database")

(* the keys of a mapping that fail escapeIdentifier, by position *)
BadKeys(m) == {i \in 1..Len(m) : ~IsIdentifier(m[i].key)}

NonNull(e) == e.val.k # "null"

ValuesOf(m) == [i \in 1..Len(m) |-> m[i].val]

(* buildWhereClause with null values bound like the others *)
buildWhereClauseBindsNull(where) ==
  IF ~where.some \/ Len(where.m) = 0
    THEN [ok |-> TRUE, sql |-> <<>>, values |-> <<>>]
  ELSE IF BadKeys(where.m) # {}
    THEN [ok |-> FALSE, sql |-> <<>>, values |-> <<>>,
          err |-> Err("ValidationError", "where")]
  ELSE
    LET parts == [i \in 1..Len(where.m) |-> <<Id(where.m[i].key), Kw("="), Ph>>]
    IN  [ok |-> TRUE,
         sql |-> <<Kw("WHERE")>> \o JoinSeq(parts, Kw("AND")),
         values |-> ValuesOf(where.m)]

buildWhereClause(where) ==
  IF ~where.some \/ Len(where.m) = 0
    THEN [ok |-> TRUE, sql |-> <<>>, values |-> <<>>]
  ELSE IF BadKeys(where.m) # {}
    THEN [ok |-> FALSE, sql |-> <<>>, values |-> <<>>,
          err |-> Err("ValidationError", "where")]
  ELSE
    LET parts == [i \in 1..Len(where.m) |->
                    IF where.m[i].val.k = "null"
                      THEN <<Id(where.m[i].key), Kw("IS NULL")>>
                      ELSE <<Id(where.m[i].key), Kw("="), Ph>>]
        values == ValuesOf(SelectSeq(where.m, NonNull))
    IN  [ok |-> TRUE,
         sql |-> <<Kw("WHERE")>> \o JoinSeq(parts, Kw("AND")),
         values |-> values]

----------------------------------------------------------------------------
(* The pools createPool has made.  A pool is a record: st is "open" from
   createPool until end() is called on it, host and database are its
   PoolOptions, idle is the bag of its idle connections, each named by the
   database it currently has selected, and total counts idle and checked-out
   connections together. *)

connectionLimit == 5

PoolOpen(pl) == pl # 0 /\ pools[pl].st = "open"

(* pool.query(sql, values): the statement goes out when the pool is open and
   is refused by the driver when end() was called on it *)
Query(pl, stmt) ==
  IF PoolOpen(pl)
    THEN Out(Ok("sent"), stmt)
    ELSE Fail(Err("DriverError", "PoolClosed"))

----------------------------------------------------------------------------
(* orderBy strings: what split(/\s+/) and toUpperCase() make of them *)

Split(s) ==
  CASE s = "id DESC" -> <<"id", "DESC">>
    [] s = "id desc" -> <<"id", "desc">>
    [] s = "id DOWN" -> <<"id", "DOWN">>
    [] s = "id ASC extra" -> <<"id", "ASC", "extra">>
    [] s = "a.b ASC" -> <<"a.b", "ASC">>
    [] s = "id x;--" -> <<"id", "x;--">>
    [] s = "a b" -> <<"a", "b">>
    [] s = "id " -> <<"id", "">>
    [] OTHER -> <<s>>

ToUpperCase(s) ==
  CASE s = "desc" -> "DESC"
    [] s = "extra" -> "EXTRA"
    [] OTHER -> s

----------------------------------------------------------------------------
(* MySqlApi: the schema and row operations.  Each is the method up to and
   including the one statement it hands to the pool; nothing it does after
   the driver answers touches the service's state. *)

listDatabases(pl) ==
  IF ~ensureAuthenticated(pl).ok THEN Fail(ensureAuthenticated(pl))
  ELSE Query(pl, Stmt("SHOW DATABASES", <<Kw("SHOW DATABASES")>>, <<>>, Absent))

listTables(database, pl, sess) ==
  LET targetDatabase == resolveDatabase(database, sess) IN
    IF ~ensureAuthenticated(pl).ok THEN Fail(ensureAuthenticated(pl))
    ELSE IF ~targetDatabase.ok THEN Fail(targetDatabase)
    ELSE Query(pl, Stmt("TABLES",
                        <<Kw("SELECT FROM information_schema.tables WHERE TABLE_SCHEMA ="), Ph>>,
                        <<StrV(targetDatabase.v)>>, targetDatabase.v))

describeTable(args, pl, sess) ==
  LET table == assertIdentifier(args.table, "table")
      database == resolveDatabase(args.database, sess)
      sent == Query(pl, Stmt("COLUMNS",
                  <<Kw("SELECT FROM information_schema.columns WHERE TABLE_SCHEMA ="), Ph,
                    Kw("AND TABLE_NAME ="), Ph>>,
                  <<StrV(database.v), StrV(table.v)>>, database.v))
  IN  IF ~ensureAuthenticated(pl).ok THEN Fail(ensureAuthenticated(pl))
      ELSE IF ~table.ok THEN Fail(table)
      ELSE IF ~database.ok THEN Fail(database)
      ELSE IF ~sent.res.ok THEN sent
      ELSE IF table.v \notin Tables(pools[pl].host, database.v)
        THEN Out(Err("ApiError", "TableNotFound"), sent.stmt)
      ELSE sent

BadColumns(columns) == {i \in 1..Len(columns) : ~IsIdentifier(columns[i])}

(* selectRows without the check that offset comes with limit *)
selectRowsOffsetAlone(args, pl, sess) ==
  LET tableRef == escapeTableReference(args.table, args.database, sess)
      columns == IF Len(args.columns) > 0
                   THEN JoinSeq([i \in 1..Len(args.columns) |-> <<Id(args.columns[i])>>],
                                Raw(","))
                   ELSE <<Kw("*")>>
      where == buildWhereClause(args.where)
      hasOrder == ~Falsy(args.orderBy)
      column == Split(args.orderBy)[1]
      direction == IF Len(Split(args.orderBy)) >= 2
                     THEN Split(args.orderBy)[2] ELSE Absent
      orderBySql == IF ~hasOrder THEN <<>>
                    ELSE <<Kw("ORDER BY"), Id(column)>>
                         \o (IF Falsy(direction) THEN <<>>
                             ELSE <<Raw(ToUpperCase(direction))>>)
      limitSql == (IF args.limit.some THEN <<Kw("LIMIT"), Ph>> ELSE <<>>)
                  \o (IF args.offset.some THEN <<Kw("OFFSET"), Ph>> ELSE <<>>)
      values == where.values
                \o (IF args.limit.some THEN <<IntV(args.limit.n)>> ELSE <<>>)
                \o (IF args.offset.some THEN <<IntV(args.offset.n)>> ELSE <<>>)
  IN  IF ~ensureAuthenticated(pl).ok THEN Fail(ensureAuthenticated(pl))
      ELSE IF ~tableRef.ok THEN Fail(tableRef)
      ELSE IF BadColumns(args.columns) # {} THEN Fail(Err("ValidationError", "columns"))
      ELSE IF ~where.ok THEN Fail(where.err)
      ELSE IF hasOrder /\ ~IsIdentifier(column) THEN Fail(Err("ValidationError", "orderBy"))
      ELSE Query(pl, Stmt("SELECT",
                          <<Kw("SELECT")>> \o columns \o <<Kw("FROM")>> \o tableRef.v
                            \o where.sql \o orderBySql \o limitSql,
                          values, tableRef.database))

selectRows(args, pl, sess) ==
  LET tableRef == escapeTableReference(args.table, args.database, sess)
      columns == IF Len(args.columns) > 0
                   THEN JoinSeq([i \in 1..Len(args.columns) |-> <<Id(args.columns[i])>>],
                                Raw(","))
                   ELSE <<Kw("*")>>
      where == buildWhereClause(args.where)
      hasOrder == ~Falsy(args.orderBy)
      column == Split(args.orderBy)[1]
      direction == IF Len(Split(args.orderBy)) >= 2
                     THEN Split(args.orderBy)[2] ELSE Absent
      orderBySql == IF ~hasOrder THEN <<>>
                    ELSE <<Kw("ORDER BY"), Id(column)>>
                         \o (IF Falsy(direction) THEN <<>>
                             ELSE <<Raw(ToUpperCase(direction))>>)
      limitSql == (IF args.limit.some THEN <<Kw("LIMIT"), Ph>> ELSE <<>>)
                  \o (IF args.offset.some THEN <<Kw("OFFSET"), Ph>> ELSE <<>>)
      values == where.values
                \o (IF args.limit.some THEN <<IntV(args.limit.n)>> ELSE <<>>)
                \o (IF args.offset.some THEN <<IntV(args.offset.n)>> ELSE <<>>)
  IN  IF ~ensureAuthenticated(pl).ok THEN Fail(ensureAuthenticated(pl))
      ELSE IF ~tableRef.ok THEN Fail(tableRef)
      ELSE IF BadColumns(args.columns) # {} THEN Fail(Err("ValidationError", "columns"))
      ELSE IF ~where.ok THEN Fail(where.err)
      ELSE IF hasOrder /\ ~IsIdentifier(column) THEN Fail(Err("ValidationError", "orderBy"))
      ELSE IF args.offset.some /\ ~args.limit.some
        THEN Fail(Err("ValidationError", "OffsetRequiresLimit"))
      ELSE Query(pl, Stmt("SELECT",
                          <<Kw("SELECT")>> \o columns \o <<Kw("FROM")>> \o tableRef.v
                            \o where.sql \o orderBySql \o limitSql,
                          values, tableRef.database))

(* insertRow without the check of empty data *)
insertRowAnyData(args, pl, sess) ==
  LET tableRef == escapeTableReference(args.table, args.database, sess)
      entries == args.data.m
      columns == JoinSeq([i \in 1..Len(entries) |-> <<Id(entries[i].key)>>], Raw(","))
      placeholders == JoinSeq([i \in 1..Len(entries) |-> <<Ph>>], Raw(","))
  IN  IF ~ensureAuthenticated(pl).ok THEN Fail(ensureAuthenticated(pl))
      ELSE IF ~tableRef.ok THEN Fail(tableRef)
      ELSE IF BadKeys(entries) # {} THEN Fail(Err("ValidationError", "data"))
      ELSE Query(pl, Stmt("INSERT",
                          <<Kw("INSERT INTO")>> \o tableRef.v \o <<Raw("(")>> \o columns
                            \o <<Raw(")"), Kw("VALUES"), Raw("(")>> \o placeholders
                            \o <<Raw(")")>>,
                          ValuesOf(entries), tableRef.database))

insertRow(args, pl, sess) ==
  LET tableRef == escapeTableReference(args.table, args.database, sess)
      entries == args.data.m
      columns == JoinSeq([i \in 1..Len(entries) |-> <<Id(entries[i].key)>>], Raw(","))
      placeholders == JoinSeq([i \in 1..Len(entries) |-> <<Ph>>], Raw(","))
  IN  IF ~ensureAuthenticated(pl).ok THEN Fail(ensureAuthenticated(pl))
      ELSE IF ~tableRef.ok THEN Fail(tableRef)
      ELSE IF Len(entries) = 0 THEN Fail(Err("ValidationError", "DataEmpty"))
      ELSE IF BadKeys(entries) # {} THEN Fail(Err("ValidationError", "data"))
      ELSE Query(pl, Stmt("INSERT",
                          <<Kw("INSERT INTO")>> \o tableRef.v \o <<Raw("(")>> \o columns
                            \o <<Raw(")"), Kw("VALUES"), Raw("(")>> \o placeholders
                            \o <<Raw(")")>>,
                          ValuesOf(entries), tableRef.database))

(* updateRows without the check of an empty WHERE *)
updateRowsUnfiltered(args, pl, sess) ==
  LET tableRef == escapeTableReference(args.table, args.database, sess)
      entries == args.data.m
      setSql == JoinSeq([i \in 1..Len(entries) |-> <<Id(entries[i].key), Kw("="), Ph>>],
                        Raw(","))
      where == buildWhereClause(args.where)
  IN  IF ~ensureAuthenticated(pl).ok THEN Fail(ensureAuthenticated(pl))
      ELSE IF ~tableRef.ok THEN Fail(tableRef)
      ELSE IF Len(entries) = 0 THEN Fail(Err("ValidationError", "DataEmpty"))
      ELSE IF BadKeys(entries) # {} THEN Fail(Err("ValidationError", "data"))
      ELSE IF ~where.ok THEN Fail(where.err)
      ELSE Query(pl, Stmt("UPDATE",
                          <<Kw("UPDATE")>> \o tableRef.v \o <<Kw("SET")>> \o setSql
                            \o where.sql,
                          ValuesOf(entries) \o where.values, tableRef.database))

updateRows(args, pl, sess) ==
  LET tableRef == escapeTableReference(args.table, args.database, sess)
      entries == args.data.m
      setSql == JoinSeq([i \in 1..Len(entries) |-> <<Id(entries[i].key), Kw("="), Ph>>],
                        Raw(","))
      where == buildWhereClause(args.where)
  IN  IF ~ensureAuthenticated(pl).ok THEN Fail(ensureAuthenticated(pl))
      ELSE IF ~tableRef.ok THEN Fail(tableRef)
      ELSE IF Len(entries) = 0 THEN Fail(Err("ValidationError", "DataEmpty"))
      ELSE IF BadKeys(entries) # {} THEN Fail(Err("ValidationError", "data"))
      ELSE IF ~where.ok THEN Fail(where.err)
      ELSE IF Len(where.sql) = 0 THEN Fail(Err("ValidationError", "WhereEmpty"))
      ELSE Query(pl, Stmt("UPDATE",
                          <<Kw("UPDATE")>> \o tableRef.v \o <<Kw("SET")>> \o setSql
                            \o where.sql,
                          ValuesOf(entries) \o where.values, tableRef.database))

deleteRows(args, pl, sess) ==
  LET tableRef == escapeTableReference(args.table, args.database, sess)
      where == buildWhereClause(args.where)
  IN  IF ~ensureAuthenticated(pl).ok THEN Fail(ensureAuthenticated(pl))
      ELSE IF ~tableRef.ok THEN Fail(tableRef)
      ELSE IF ~where.ok THEN Fail(where.err)
      ELSE IF Len(where.sql) = 0 THEN Fail(Err("ValidationError", "WhereEmpty"))
      ELSE Query(pl, Stmt("DELETE",
                          <<Kw("DELETE FROM")>> \o tableRef.v \o where.sql,
                          where.values, tableRef.database))

----------------------------------------------------------------------------
(* validators/common.js and validators/collections.js: the shape checks the
   record validators call *)

requireString(value, parameter) ==
  IF value = Absent THEN Err("ValidationError", "Missing")
  ELSE IF value = BadType \/ value = "" THEN Err("ValidationError", "NotString")
  ELSE Ok(value)

optionalString(value, parameter) ==
  IF value = BadType THEN Err("ValidationError", "NotString") ELSE Ok(value)

requireObject(value, parameter) ==
  IF ~value.some THEN Err("ValidationError", "Missing")
  ELSE IF value.bad THEN Err("ValidationError", "NotObject")
  ELSE Ok(value)

optionalInteger(value, parameter) ==
  IF value.some /\ value.bad THEN Err("ValidationError", "NotInteger") ELSE Ok(value)

parseOrderBy(orderBy) ==
  LET tokens == Split(orderBy) IN
    IF Len(tokens) > 2 THEN Err("ValidationError", "OrderByFormat")
    ELSE IF ~IsIdentifier(tokens[1]) THEN Err("ValidationError", "OrderByFormat")
    ELSE IF Len(tokens) = 2 /\ ToUpperCase(tokens[2]) \notin {"ASC", "DESC"}
      THEN Err("ValidationError", "OrderByFormat")
    ELSE Ok(orderBy)

----------------------------------------------------------------------------
(* validators/records.js *)

(* parseWhere without the check of an empty object *)
parseWhereAnyObject(value, parameter) ==
  IF ~value.some THEN Ok(NoMap)
  ELSE IF ~requireObject(value, parameter).ok THEN requireObject(value, parameter)
  ELSE Ok(value)

parseWhere(value, parameter) ==
  IF ~value.some THEN Ok(NoMap)
  ELSE IF ~requireObject(value, parameter).ok THEN requireObject(value, parameter)
  ELSE IF Len(value.m) = 0 THEN Err("ValidationError", "WhereEmptyObject")
  ELSE Ok(value)

parseSelectRowsArgs(args) ==
  LET table == requireString(args.table, "table")
      database == optionalString(args.database, "database")
      where == parseWhere(args.where, "where")
      orderBy == optionalString(args.orderBy, "orderBy")
      parsedOrderBy == IF orderBy.v = Absent THEN orderBy ELSE parseOrderBy(orderBy.v)
      limit == optionalInteger(args.limit, "limit")
      offset == optionalInteger(args.offset, "offset")
  IN  IF ~table.ok THEN table
      ELSE IF ~database.ok THEN database
      ELSE IF args.columns.bad THEN Err("ValidationError", "columns")
      ELSE IF ~where.ok THEN where
      ELSE IF ~orderBy.ok THEN orderBy
      ELSE IF ~parsedOrderBy.ok THEN parsedOrderBy
      ELSE IF ~limit.ok THEN limit
      ELSE IF limit.v.some /\ limit.v.n < 1 THEN Err("ValidationError", "LimitRange")
      ELSE IF ~offset.ok THEN offset
      ELSE IF offset.v.some /\ offset.v.n < 0 THEN Err("ValidationError", "OffsetRange")
      ELSE Ok([table |-> table.v, database |-> database.v, columns |-> args.columns.m,
               where |-> where.v, orderBy |-> parsedOrderBy.v,
               limit |-> limit.v, offset |-> offset.v])

parseInsertRowArgs(args) ==
  LET table == requireString(args.table, "table")
      database == optionalString(args.database, "database")
      data == requireObject(args.data, "data")
  IN  IF ~table.ok THEN table
      ELSE IF ~database.ok THEN database
      ELSE IF ~data.ok THEN data
      ELSE Ok([table |-> table.v, database |-> database.v, data |-> data.v])

parseUpdateRowsArgs(args) ==
  LET where == requireObject(args.where, "where")
      table == requireString(args.table, "table")
      database == optionalString(args.database, "database")
      data == requireObject(args.data, "data")
  IN  IF ~where.ok THEN where
      ELSE IF Len(where.v.m) = 0 THEN Err("ValidationError", "WhereEmptyObject")
      ELSE IF ~table.ok THEN table
      ELSE IF ~database.ok THEN database
      ELSE IF ~data.ok THEN data
      ELSE Ok([table |-> table.v, database |-> database.v, data |-> data.v,
               where |-> where.v])

parseDeleteRowsArgs(args) ==
  LET where == requireObject(args.where, "where")
      table == requireString(args.table, "table")
      database == optionalString(args.database, "database")
  IN  IF ~where.ok THEN where
      ELSE IF Len(where.v.m) = 0 THEN Err("ValidationError", "WhereEmptyObject")
      ELSE IF ~table.ok THEN table
      ELSE IF ~database.ok THEN database
      ELSE Ok([table |-> table.v, database |-> database.v, where |-> where.v])

----------------------------------------------------------------------------
(* Calls suspended at an await.  op and pc say which method and which await;
   p is the pool the method holds in its local variable, db its database
   argument, auth the arguments of authMySql, conn the database selected on
   the connection executeSql holds (Absent for none selected), ldb
   executeSql's local variable database, and began records, for the history,
   how the active database had been set when the call arrived. *)

MaxCalls == 2
MaxPools == 2

DefaultPort == 3306

NoAuthArgs ==
  [host |-> Absent, port |-> 0, user |-> Absent, password |-> Absent,
   database |-> Absent, ssl |-> FALSE]

Call(op, pc, p, db, auth, conn, ldb) ==
  [op |-> op, pc |-> pc, p |-> p, db |-> db, auth |-> auth, conn |-> conn, ldb |-> ldb,
   began |-> IF op = "executeSql" THEN activeFrom ELSE "none"]

Suspend(c) == inflight (+) SetToBag({c})

Resume(c) == inflight (-) SetToBag({c})

Move(c, d) == (inflight (-) SetToBag({c})) (+) SetToBag({d})

Event(op, args, res, stmt) == [op |-> op, args |-> args, res |-> res, stmt |-> stmt]

NoInput == [call |-> "", with |-> NoAuthArgs]

(* a step that neither ends a call nor sends a statement *)
Waiting == Event("", NoAuthArgs, Pending, NoStmt)

(* pool.end(): the pool refuses work from the call on, its connections go *)
EndPool(pl) ==
  [pools EXCEPT ![pl] = [@ EXCEPT !.st = "closed", !.idle = EmptyBag, !.total = 0]]

(* createPool(options) *)
NewPool(args) ==
  [st |-> "open", host |-> args.host, database |-> args.database,
   idle |-> EmptyBag, total |-> 0]

(* the pools that authMySql calls waiting for end() will still create *)
PoolsToCome ==
  LET ending == {c \in BagToSet(inflight) : c.op = "authMySql" /\ c.pc = "end"}
  IN  BagCardinality([c \in ending |-> inflight[c]])

Probe == Stmt("SELECT 1", <<Kw("SELECT 1")>>, <<>>, Absent)

(* the server's answer to the liveness probe of a pool opened with args *)
ProbeAnswers(args) ==
  /\ Accepts(args.host, args.user, args.password)
  /\ args.database = Absent \/ args.database \in Catalog(args.host)

AuthArgsSet ==
  {[host |-> "h1", port |-> 0, user |-> "root", password |-> "secret",
    database |-> "shop", ssl |-> FALSE],
   [host |-> "h2", port |-> 3307, user |-> "root", password |-> "secret",
    database |-> Absent, ssl |-> TRUE],
   [host |-> "h2", port |-> 0, user |-> "root", password |-> "wrong",
    database |-> "shop", ssl |-> FALSE]}

----------------------------------------------------------------------------
(* authMySql *)

(* lines 108-126 with a pool installed: end() is called on it and awaited *)
AuthEndOld(args) ==
  /\ pool # 0
  /\ BagCardinality(inflight) < MaxCalls
  /\ Len(pools) + PoolsToCome < MaxPools
  /\ pools' = EndPool(pool)
  /\ inflight' = Suspend(Call("authMySql", "end", pool, Absent, args, Absent, Absent))
  /\ ev' = Waiting
  /\ UNCHANGED <<pool, session, activeFrom, input>>

(* lines 112-126: the new pool is created and probed *)
AuthCreate(args) ==
  /\ pools' = Append(pools, NewPool(args))
  /\ ev' = Event("authMySql", args, Pending, Probe)
  /\ UNCHANGED <<pool, session, activeFrom, input>>

AuthBegin(args) ==
  /\ pool = 0
  /\ BagCardinality(inflight) < MaxCalls
  /\ Len(pools) + PoolsToCome < MaxPools
  /\ AuthCreate(args)
  /\ inflight' = Suspend(Call("authMySql", "probe", Len(pools) + 1, Absent, args,
                              Absent, Absent))

AuthEnded(c) ==
  /\ c.op = "authMySql" /\ c.pc = "end"
  /\ AuthCreate(c.auth)
  /\ inflight' = Move(c, [c EXCEPT !.pc = "probe", !.p = Len(pools) + 1])

(* lines 127-143: the probe was answered; the connection it ran on stays in
   the pool *)
AuthInstall(c) ==
  /\ c.op = "authMySql" /\ c.pc = "probe"
  /\ ProbeAnswers(c.auth)
  /\ pool' = c.p
  /\ session' = [host |-> c.auth.host,
                 port |-> IF c.auth.port # 0 THEN c.auth.port ELSE DefaultPort,
                 user |-> c.auth.user,
                 database |-> c.auth.database,
                 ssl |-> c.auth.ssl,
                 some |-> TRUE]
  /\ activeFrom' = IF c.auth.database = Absent THEN "none" ELSE "authMySql"
  /\ inflight' = Resume(c)
  /\ ev' = Event("authMySql", c.auth, Ok(session'), NoStmt)
  /\ pools' = IF pools[c.p].st = "open"
                THEN [pools EXCEPT ![c.p] =
                        [@ EXCEPT !.idle = SetToBag({c.auth.database}), !.total = 1]]
                ELSE pools
  /\ UNCHANGED input

(* the catch block without its two assignments *)
AuthFailKeepsSession(c) ==
  /\ c.op = "authMySql" /\ c.pc = "probe"
  /\ inflight' = Resume(c)
  /\ ev' = Event("authMySql", c.auth, Err("AuthError", "AuthFailed"), NoStmt)
  /\ UNCHANGED <<pool, session, activeFrom, pools, input>>

(* lines 144-149: the probe failed, on the server's refusal or on the network *)
AuthFail(c) ==
  /\ c.op = "authMySql" /\ c.pc = "probe"
  /\ pool' = 0
  /\ session' = NoSession
  /\ activeFrom' = "none"
  /\ inflight' = Resume(c)
  /\ ev' = Event("authMySql", c.auth, Err("AuthError", "AuthFailed"), NoStmt)
  /\ UNCHANGED <<pools, input>>

----------------------------------------------------------------------------
(* getAuthStatus, logout, health *)

getAuthStatus ==
  /\ ev' = Event("getAuthStatus", NoAuthArgs,
                 Ok([authenticated |-> pool # 0, session |-> session]), NoStmt)
  /\ UNCHANGED <<pool, session, pools, inflight, activeFrom, input>>

(* the end of logout without this.pool = null *)
LogoutClearKeepsPool ==
  /\ pool' = pool
  /\ session' = NoSession
  /\ activeFrom' = "none"
  /\ ev' = Event("logout", NoAuthArgs, Ok([authenticated |-> FALSE]), NoStmt)

LogoutClear ==
  /\ pool' = 0
  /\ session' = NoSession
  /\ activeFrom' = "none"
  /\ ev' = Event("logout", NoAuthArgs, Ok([authenticated |-> FALSE]), NoStmt)

LogoutBegin ==
  IF pool # 0
    THEN /\ BagCardinality(inflight) < MaxCalls
         /\ pools' = EndPool(pool)
         /\ inflight' = Suspend(Call("logout", "end", pool, Absent, NoAuthArgs,
                                     Absent, Absent))
         /\ ev' = Waiting
         /\ UNCHANGED <<pool, session, activeFrom, input>>
    ELSE /\ LogoutClear
         /\ UNCHANGED <<pools, inflight, input>>

LogoutEnded(c) ==
  /\ c.op = "logout" /\ c.pc = "end"
  /\ LogoutClear
  /\ inflight' = Resume(c)
  /\ UNCHANGED <<pools, input>>

health ==
  /\ ev' = IF pool = 0
             THEN Event("health", NoAuthArgs,
                        Ok([ok |-> FALSE, authenticated |-> FALSE]), NoStmt)
             ELSE LET sent == Query(pool, Stmt("NOW", <<Kw("SELECT NOW()")>>, <<>>, Absent))
                  IN  Event("health", NoAuthArgs,
                            IF sent.res.ok THEN Ok([ok |-> TRUE, authenticated |-> TRUE])
                                           ELSE sent.res,
                            sent.stmt)
  /\ UNCHANGED <<pool, session, pools, inflight, activeFrom, input>>

----------------------------------------------------------------------------
(* useDatabase *)

Lookup(database) ==
  Stmt("SCHEMATA",
       <<Kw("SELECT FROM information_schema.schemata WHERE SCHEMA_NAME ="), Ph>>,
       <<StrV(database)>>, Absent)

UseArgs(database) == [database |-> database]

(* lines 443-449: up to the catalog lookup handed to the pool; op and args
   name the call in the step's record *)
UseBegin(op, args, database) ==
  LET auth == ensureAuthenticated(pool)
      name == assertIdentifier(database, "database")
      sent == Query(pool, Lookup(database))
  IN  /\ IF auth.ok /\ name.ok /\ sent.res.ok
           THEN /\ BagCardinality(inflight) < MaxCalls
                /\ inflight' = Suspend(Call("useDatabase", "lookup", pool, database,
                                            NoAuthArgs, Absent, Absent))
                /\ ev' = Event(op, args, Pending, sent.stmt)
           ELSE /\ inflight' = inflight
                /\ ev' = Event(op, args,
                               IF ~auth.ok THEN auth
                               ELSE IF ~name.ok THEN name ELSE sent.res,
                               NoStmt)
      /\ UNCHANGED <<pool, session, pools, activeFrom, input>>

(* lines 451-468 without the check that a session is there: the spread of a
   null session and the database make a session *)
UseAnsweredUnchecked(c) ==
  /\ c.op = "useDatabase" /\ c.pc = "lookup"
  /\ inflight' = Resume(c)
  /\ IF c.db \notin Catalog(pools[c.p].host)
       THEN /\ ev' = Event("useDatabase", UseArgs(c.db),
                           Err("ApiError", "DatabaseNotFound"), NoStmt)
            /\ UNCHANGED <<session, activeFrom>>
     ELSE /\ session' = [session EXCEPT !.database = c.db, !.some = TRUE]
          /\ activeFrom' = "useDatabase"
          /\ ev' = Event("useDatabase", UseArgs(c.db), Ok(c.db), NoStmt)
  /\ UNCHANGED <<pool, pools, input>>

(* lines 451-468: the lookup was answered by the server of the pool it went to *)
UseAnswered(c) ==
  /\ c.op = "useDatabase" /\ c.pc = "lookup"
  /\ inflight' = Resume(c)
  /\ IF c.db \notin Catalog(pools[c.p].host)
       THEN /\ ev' = Event("useDatabase", UseArgs(c.db),
                           Err("ApiError", "DatabaseNotFound"), NoStmt)
            /\ UNCHANGED <<session, activeFrom>>
     ELSE IF ~session.some
       THEN /\ ev' = Event("useDatabase", UseArgs(c.db),
                           Err("AuthError", "NotAuthenticated"), NoStmt)
            /\ UNCHANGED <<session, activeFrom>>
     ELSE /\ session' = [session EXCEPT !.database = c.db]
          /\ activeFrom' = "useDatabase"
          /\ ev' = Event("useDatabase", UseArgs(c.db), Ok(c.db), NoStmt)
  /\ UNCHANGED <<pool, pools, input>>

(* the pool was ended while the lookup was in flight and the driver gave it up *)
UseDropped(c) ==
  /\ c.op = "useDatabase" /\ c.pc = "lookup"
  /\ ~PoolOpen(c.p)
  /\ inflight' = Resume(c)
  /\ ev' = Event("useDatabase", UseArgs(c.db), Err("DriverError", "PoolClosed"), NoStmt)
  /\ UNCHANGED <<pool, session, pools, activeFrom, input>>

----------------------------------------------------------------------------
(* executeSql *)

ExecArgs(c) == [database |-> c.db, began |-> c.began]

(* what the caller's statement is to the model: text the gateway passes on
   verbatim, run in the database selected on the connection it goes to *)
UserSql(ranIn) == Stmt("SQL", <<Raw("args.sql")>>, <<>>, ranIn)

UseStmt(database) == Stmt("USE", <<Kw("USE"), Id(database)>>, <<>>, Absent)

(* connection.release(): back among the idle ones, unless the pool was ended *)
Release(pl, conn) ==
  IF PoolOpen(pl)
    THEN [pools EXCEPT ![pl] = [@ EXCEPT !.idle = @ (+) SetToBag({conn})]]
    ELSE pools

(* pool.getConnection() of an open pool: an idle connection, or a new one
   while the pool has fewer than connectionLimit; px is the pool after it *)
Acquired(pl) ==
  {[conn |-> d,
    px |-> [pools EXCEPT ![pl] = [@ EXCEPT !.idle = @ (-) SetToBag({d})]]]
     : d \in BagToSet(pools[pl].idle)}
  \cup
  (IF BagToSet(pools[pl].idle) = {} /\ pools[pl].total < connectionLimit
     THEN {[conn |-> pools[pl].database,
            px |-> [pools EXCEPT ![pl] = [@ EXCEPT !.total = @ + 1]]]}
     ELSE {})

(* lines 390-393 *)
ExecBegin(op, args, database) ==
  LET auth == ensureAuthenticated(pool) IN
    /\ IF auth.ok
         THEN /\ BagCardinality(inflight) < MaxCalls
              /\ inflight' = Suspend(Call("executeSql", "getConnection", pool, database,
                                          NoAuthArgs, Absent, Absent))
              /\ ev' = Waiting
         ELSE /\ inflight' = inflight
              /\ ev' = Event(op, args, auth, NoStmt)
    /\ UNCHANGED <<pool, session, pools, activeFrom, input>>

(* getConnection() of a pool that was ended is refused *)
ExecRefused(c) ==
  /\ c.op = "executeSql" /\ c.pc = "getConnection"
  /\ ~PoolOpen(c.p)
  /\ inflight' = Resume(c)
  /\ ev' = Event("executeSql", ExecArgs(c), Err("DriverError", "PoolClosed"), NoStmt)
  /\ UNCHANGED <<pool, session, pools, activeFrom, input>>

(* lines 393-401: a connection is obtained; the scoped USE goes out, or the
   statement itself when no database was given *)
ExecConnected(c) ==
  /\ c.op = "executeSql" /\ c.pc = "getConnection"
  /\ PoolOpen(c.p)
  /\ \E a \in Acquired(c.p) :
       LET database == SessionDatabase(session)
           name == assertIdentifier(c.db, "database")
       IN  IF Falsy(c.db)
             THEN /\ pools' = a.px
                  /\ inflight' = Move(c, [c EXCEPT !.pc = "query", !.conn = a.conn,
                                                    !.ldb = database])
                  /\ ev' = Event("executeSql", ExecArgs(c), Pending, UserSql(a.conn))
           ELSE IF ~name.ok
             THEN /\ pools' = [a.px EXCEPT ![c.p] =
                                 [@ EXCEPT !.idle = @ (+) SetToBag({a.conn})]]
                  /\ inflight' = Resume(c)
                  /\ ev' = Event("executeSql", ExecArgs(c), name, NoStmt)
           ELSE /\ pools' = a.px
                /\ inflight' = Move(c, [c EXCEPT !.pc = "use", !.conn = a.conn,
                                                  !.ldb = c.db])
                /\ ev' = Event("executeSql", ExecArgs(c), Pending, UseStmt(c.db))
  /\ UNCHANGED <<pool, session, activeFrom, input>>

(* executeSql with the release left out where the USE fails *)
ExecUsedLeaks(c) ==
  /\ c.op = "executeSql" /\ c.pc = "use"
  /\ IF PoolOpen(c.p) /\ c.db \in Catalog(pools[c.p].host)
       THEN /\ inflight' = Move(c, [c EXCEPT !.pc = "query", !.conn = c.db])
            /\ ev' = Event("executeSql", ExecArgs(c), Pending, UserSql(c.db))
            /\ pools' = pools
       ELSE /\ inflight' = Resume(c)
            /\ ev' = Event("executeSql", ExecArgs(c),
                           Err("DriverError", "UseFailed"), NoStmt)
            /\ pools' = pools
  /\ UNCHANGED <<pool, session, activeFrom, input>>

(* lines 398-401: the USE was answered; the statement goes out on the same
   connection *)
ExecUsed(c) ==
  /\ c.op = "executeSql" /\ c.pc = "use"
  /\ IF PoolOpen(c.p) /\ c.db \in Catalog(pools[c.p].host)
       THEN /\ inflight' = Move(c, [c EXCEPT !.pc = "query", !.conn = c.db])
            /\ ev' = Event("executeSql", ExecArgs(c), Pending, UserSql(c.db))
            /\ pools' = pools
       ELSE /\ inflight' = Resume(c)
            /\ ev' = Event("executeSql", ExecArgs(c),
                           Err("DriverError", "UseFailed"), NoStmt)
            /\ pools' = Release(c.p, c.conn)
  /\ UNCHANGED <<pool, session, activeFrom, input>>

(* lines 401-422: the statement was answered, with rows or with an error; the
   connection is released either way *)
ExecAnswered(c) ==
  /\ c.op = "executeSql" /\ c.pc = "query"
  /\ inflight' = Resume(c)
  /\ pools' = Release(c.p, c.conn)
  /\ \E answer \in {"rows", "error"} :
       ev' = Event("executeSql", ExecArgs(c),
                   IF answer = "rows"
                     THEN Ok([database |-> c.ldb, ranIn |-> c.conn])
                     ELSE Err("DriverError", "StatementFailed"),
                   NoStmt)
  /\ UNCHANGED <<pool, session, activeFrom, input>>

----------------------------------------------------------------------------
(* The gateway's one-statement operations as steps of the service, called
   with arguments drawn from A *)

(* a step that drops the active database of the session *)
QuietButForgetful ==
  /\ session' = [session EXCEPT !.database = Absent]
  /\ UNCHANGED <<pool, pools, inflight, activeFrom, input>>

Quiet == UNCHANGED <<pool, session, pools, inflight, activeFrom, input>>

Done(op, args, out) == ev' = Event(op, args, out.res, out.stmt) /\ Quiet

ApiListTables(A) == \E args \in A : Done("listTables", args,
                                         listTables(args.database, pool, session))

ApiDescribeTable(A) == \E args \in A : Done("describeTable", args,
                                            describeTable(args, pool, session))

ApiSelectRows(A) == \E args \in A : Done("selectRows", args, selectRows(args, pool, session))

ApiInsertRow(A) == \E args \in A : Done("insertRow", args, insertRow(args, pool, session))

ApiUpdateRows(A) == \E args \in A : Done("updateRows", args, updateRows(args, pool, session))

ApiDeleteRows(A) == \E args \in A : Done("deleteRows", args, deleteRows(args, pool, session))

----------------------------------------------------------------------------
(* The tool handlers: the validator, then the gateway method *)

(* api.X(parseX(args)) *)
Handle(parsed, out) == IF parsed.ok THEN out ELSE Fail(parsed)

ToolSelectRows(A) ==
  \E args \in A :
    LET parsed == parseSelectRowsArgs(args) IN
      Done("select_rows", args, Handle(parsed, selectRows(parsed.v, pool, session)))

ToolInsertRow(A) ==
  \E args \in A :
    LET parsed == parseInsertRowArgs(args) IN
      Done("insert_row", args, Handle(parsed, insertRow(parsed.v, pool, session)))

ToolUpdateRows(A) ==
  \E args \in A :
    LET parsed == parseUpdateRowsArgs(args) IN
      Done("update_rows", args, Handle(parsed, updateRows(parsed.v, pool, session)))

ToolDeleteRows(A) ==
  \E args \in A :
    LET parsed == parseDeleteRowsArgs(args) IN
      Done("delete_rows", args, Handle(parsed, deleteRows(parsed.v, pool, session)))

ToolListDatabases == Done("list_databases", NoAuthArgs, listDatabases(pool))

ToolListTables(A) ==
  \E args \in A :
    LET parsed == optionalString(args.database, "database") IN
      Done("list_tables", args, Handle(parsed, listTables(parsed.v, pool, session)))

ToolDescribeTable(A) ==
  \E args \in A :
    LET table == requireString(args.table, "table")
        database == optionalString(args.database, "database")
        parsed == IF ~table.ok THEN table
                  ELSE IF ~database.ok THEN database
                  ELSE Ok([table |-> table.v, database |-> database.v])
    IN  Done("describe_table", args, Handle(parsed, describeTable(parsed.v, pool, session)))

(* use_database: the database argument must be a string *)
ToolUseDatabase(A) ==
  \E args \in A :
    LET parsed == requireString(args.database, "database") IN
      IF parsed.ok
        THEN UseBegin("use_database", args, parsed.v)
        ELSE Done("use_database", args, Fail(parsed))

parseExecuteSqlArgs(args) ==
  LET sql == requireString(args.sql, "sql")
      database == optionalString(args.database, "database")
  IN  IF ~sql.ok THEN sql
      ELSE IF ~database.ok THEN database
      ELSE IF args.params = BadType THEN Err("ValidationError", "ParamsNotArray")
      ELSE Ok([sql |-> sql.v, database |-> database.v, params |-> args.params])

ToolExecuteSql(A) ==
  \E args \in A :
    LET parsed == parseExecuteSqlArgs(args) IN
      IF parsed.ok
        THEN ExecBegin("execute_sql", args, parsed.v.database)
        ELSE Done("execute_sql", args, Fail(parsed))

----------------------------------------------------------------------------
(* The service with its calls interleaving at their awaits.  The arguments
   are few: what matters here is the order of the steps. *)

OneWhere == Map(<<[key |-> "id", val |-> IntV(1)]>>)
OneData == Map(<<[key |-> "email", val |-> StrV("x")]>>)

NoColumns == [some |-> FALSE, bad |-> FALSE, m |-> <<>>]

LifeDatabases == {Absent, "app"}

LifeSelectArgs ==
  {[table |-> "users", database |-> d, columns |-> NoColumns, where |-> w,
    orderBy |-> Absent, limit |-> NoNum, offset |-> NoNum]
     : d \in LifeDatabases, w \in {NoMap}}

LifeInsertArgs ==
  {[table |-> t, database |-> d, data |-> OneData]
     : t \in {"users"}, d \in LifeDatabases}

LifeUpdateArgs ==
  {[table |-> "users", database |-> d, data |-> OneData, where |-> w]
     : d \in LifeDatabases, w \in {OneWhere, Map(<<>>)}}

LifeDeleteArgs ==
  {[table |-> "users", database |-> d, where |-> w]
     : d \in LifeDatabases, w \in {OneWhere, NoMap}}

LifeListArgs == {[database |-> d] : d \in LifeDatabases}

LifeDescribeArgs ==
  {[table |-> t, database |-> d] : t \in {"users"}, d \in LifeDatabases}

LifeUseArgs == {[database |-> d] : d \in {"shop", "ghost", "a b"}}

LifeExecArgs ==
  {[sql |-> q, database |-> d, params |-> Absent]
     : q \in {"args.sql"}, d \in {Absent, "app"}}
  \cup {[sql |-> Absent, database |-> Absent, params |-> Absent]}

Init ==
  /\ pool = 0
  /\ session = NoSession
  /\ pools = <<>>
  /\ inflight = EmptyBag
  /\ activeFrom = "none"
  /\ input = NoInput
  /\ ev = Waiting

(* the calls of a client that manages the session and watches it *)
Arrive ==
  \/ \E args \in AuthArgsSet : AuthBegin(args)
  \/ \E args \in AuthArgsSet : AuthEndOld(args)
  \/ LogoutBegin
  \/ getAuthStatus
  \/ health
  \/ ToolListDatabases
  \/ ToolUseDatabase(LifeUseArgs)

(* a call suspended at an await of authMySql, logout or useDatabase resumes *)
Continue ==
  \/ \E c \in BagToSet(inflight) : AuthEnded(c)
  \/ \E c \in BagToSet(inflight) : AuthInstall(c)
  \/ \E c \in BagToSet(inflight) : AuthFail(c)
  \/ \E c \in BagToSet(inflight) : LogoutEnded(c)
  \/ \E c \in BagToSet(inflight) : UseAnswered(c)
  \/ \E c \in BagToSet(inflight) : UseDropped(c)

Next == Arrive \/ Continue

Spec == Init /\ [][Next]_vars

----------------------------------------------------------------------------
(* The service on one server, with every tool in use *)

ExecAuthArgsSet ==
  {[host |-> "h1", port |-> 0, user |-> "root", password |-> "secret",
    database |-> "shop", ssl |-> FALSE]}

ExecUseArgs == {[database |-> "app"]}

ArriveExec ==
  \/ \E args \in ExecAuthArgsSet : AuthBegin(args)
  \/ \E args \in ExecAuthArgsSet : AuthEndOld(args)
  \/ LogoutBegin
  \/ ToolListDatabases
  \/ ToolUseDatabase(ExecUseArgs)
  \/ ToolListTables(LifeListArgs)
  \/ ToolDescribeTable(LifeDescribeArgs)
  \/ ToolSelectRows(LifeSelectArgs)
  \/ ToolInsertRow(LifeInsertArgs)
  \/ ToolUpdateRows(LifeUpdateArgs)
  \/ ToolDeleteRows(LifeDeleteArgs)
  \/ ToolExecuteSql(LifeExecArgs)

(* a call suspended at an await of executeSql resumes *)
ContinueExec ==
  \/ \E c \in BagToSet(inflight) : ExecRefused(c)
  \/ \E c \in BagToSet(inflight) : ExecConnected(c)
  \/ \E c \in BagToSet(inflight) : ExecUsed(c)
  \/ \E c \in BagToSet(inflight) : ExecAnswered(c)

NextExec == ArriveExec \/ Continue \/ ContinueExec

SpecExec == Init /\ [][NextExec]_vars

----------------------------------------------------------------------------
(* The tools over their arguments.  The service is in one of the states its
   session can be in and one call is at hand, made through the tool handler
   (raw arguments) or on the gateway itself (typed arguments); it may be
   repeated, and the logout that was waiting may return in between. *)

H1Shop ==
  [host |-> "h1", port |-> DefaultPort, user |-> "root", database |-> "shop",
   ssl |-> FALSE, some |-> TRUE]

OpenPool(database) ==
  [st |-> "open", host |-> "h1", database |-> database,
   idle |-> SetToBag({database}), total |-> 1]

SessionStates ==
  { \* never authenticated
    [pool |-> 0, session |-> NoSession, pools |-> <<>>, inflight |-> EmptyBag,
     activeFrom |-> "none"],
    \* authenticated with a default database
    [pool |-> 1, session |-> H1Shop, pools |-> <<OpenPool("shop")>>,
     inflight |-> EmptyBag, activeFrom |-> "authMySql"],
    \* authenticated without one
    [pool |-> 1, session |-> [H1Shop EXCEPT !.database = Absent],
     pools |-> <<OpenPool(Absent)>>, inflight |-> EmptyBag, activeFrom |-> "none"],
    \* logout waiting for end() of the pool
    [pool |-> 1, session |-> H1Shop,
     pools |-> <<[OpenPool("shop") EXCEPT !.st = "closed", !.idle = EmptyBag,
                                          !.total = 0]>>,
     inflight |-> SetToBag({[op |-> "logout", pc |-> "end", p |-> 1, db |-> Absent,
                             auth |-> NoAuthArgs, conn |-> Absent, ldb |-> Absent,
                             began |-> "none"]}),
     activeFrom |-> "authMySql"] }

W1 == Map(<<[key |-> "id", val |-> IntV(1)]>>)
W2 == Map(<<[key |-> "id", val |-> IntV(1)], [key |-> "email", val |-> NullV]>>)
W3 == Map(<<[key |-> "email", val |-> NullV], [key |-> "_k9", val |-> StrV("x")],
            [key |-> "Name", val |-> StrV("y")]>>)
WBadKey == Map(<<[key |-> "id", val |-> IntV(1)], [key |-> "x;--", val |-> StrV("x")]>>)

Wheres == {NoMap, Map(<<>>), W1, W2, W3, WBadKey}

Datas == {Map(<<>>), OneData, W2, WBadKey}

Cols(m) == [some |-> TRUE, bad |-> FALSE, m |-> m]

RowTables == {"users", "9lives"}
RowDatabases == {Absent, "app", "", "a.b"}

SelectArgs ==
  {[table |-> t, database |-> d, columns |-> c.m, where |-> w, orderBy |-> o,
    limit |-> l, offset |-> f]
     : t \in RowTables, d \in RowDatabases,
       c \in {NoColumns, Cols(<<"id", "email">>), Cols(<<"id", "x'y">>)},
       w \in Wheres \ {W3},
       o \in {Absent, "id", "id desc", "id DOWN"},
       l \in {NoNum, Num(10)}, f \in {NoNum, Num(5)}}

RawSelectArgs ==
  {[table |-> t, database |-> d, columns |-> c, where |-> w, orderBy |-> o,
    limit |-> l, offset |-> f]
     : t \in {"users", Absent}, d \in {Absent, "app", BadType},
       c \in {NoColumns, Cols(<<"id", "email">>)},
       w \in {NoMap, Map(<<>>), W1, W2, BadMap},
       o \in {Absent, "id", "id desc", "id DOWN", "id ASC extra"},
       l \in {NoNum, Num(10), Num(0), BadNum}, f \in {NoNum, Num(5), Num(-1)}}

InsertArgs ==
  {[table |-> t, database |-> d, data |-> m]
     : t \in RowTables, d \in RowDatabases, m \in Datas}

RawInsertArgs ==
  {[table |-> t, database |-> d, data |-> m]
     : t \in {"users", Absent}, d \in {Absent, "app", BadType},
       m \in Datas \cup {NoMap, BadMap}}

UpdateArgs ==
  {[table |-> t, database |-> d, data |-> m, where |-> w]
     : t \in RowTables, d \in RowDatabases, m \in Datas, w \in Wheres}

RawUpdateArgs ==
  {[table |-> t, database |-> d, data |-> m, where |-> w]
     : t \in {"users", Absent}, d \in {Absent, "app", BadType},
       m \in Datas \cup {NoMap}, w \in Wheres \cup {BadMap}}

DeleteArgs ==
  {[table |-> t, database |-> d, where |-> w]
     : t \in RowTables, d \in RowDatabases, w \in Wheres}

RawDeleteArgs ==
  {[table |-> t, database |-> d, where |-> w]
     : t \in {"users", Absent}, d \in {Absent, "app", BadType},
       w \in Wheres \cup {BadMap}}

DescribeArgs ==
  {[table |-> t, database |-> d]
     : t \in RowTables \cup {"ghost"}, d \in RowDatabases}

RawDescribeArgs ==
  {[table |-> t, database |-> d]
     : t \in {"users", Absent, BadType}, d \in {Absent, "app", BadType}}

ListArgs == {[database |-> d] : d \in RowDatabases}

RawListArgs == {[database |-> d] : d \in {Absent, "app", "", "a.b", BadType}}

RawUseArgs ==
  {[database |-> d] : d \in {"shop", "app", "ghost", "a b", "", Absent, BadType}}

RawExecArgs ==
  {[sql |-> q, database |-> d, params |-> p]
     : q \in {"args.sql", Absent, BadType},
       d \in {Absent, "app", "ghost", "a.b", BadType},
       p \in {Absent, "params", BadType}}

CallsOf(op, A) == {[call |-> op, with |-> a] : a \in A}

RowCalls ==
  CallsOf("listTables", ListArgs) \cup CallsOf("list_tables", RawListArgs)
  \cup CallsOf("describeTable", DescribeArgs) \cup CallsOf("describe_table", RawDescribeArgs)
  \cup CallsOf("selectRows", SelectArgs) \cup CallsOf("select_rows", RawSelectArgs)
  \cup CallsOf("insertRow", InsertArgs) \cup CallsOf("insert_row", RawInsertArgs)
  \cup CallsOf("updateRows", UpdateArgs) \cup CallsOf("update_rows", RawUpdateArgs)
  \cup CallsOf("deleteRows", DeleteArgs) \cup CallsOf("delete_rows", RawDeleteArgs)
  \cup CallsOf("list_databases", {NoAuthArgs})
  \cup CallsOf("get_auth_status", {NoAuthArgs}) \cup CallsOf("health", {NoAuthArgs})
  \cup CallsOf("use_database", RawUseArgs) \cup CallsOf("execute_sql", RawExecArgs)

InitRows ==
  /\ \E st \in SessionStates :
       /\ pool = st.pool
       /\ session = st.session
       /\ pools = st.pools
       /\ inflight = st.inflight
       /\ activeFrom = st.activeFrom
  /\ input \in RowCalls
  /\ ev = Waiting

(* the arguments of the call at hand, when it is a call of op *)
Drawn(op) == IF input.call = op THEN {input.with} ELSE {}

NextRows ==
  \/ ApiListTables(Drawn("listTables"))
  \/ ApiDescribeTable(Drawn("describeTable"))
  \/ ApiSelectRows(Drawn("selectRows"))
  \/ ApiInsertRow(Drawn("insertRow"))
  \/ ApiUpdateRows(Drawn("updateRows"))
  \/ ApiDeleteRows(Drawn("deleteRows"))
  \/ ToolListTables(Drawn("list_tables"))
  \/ ToolDescribeTable(Drawn("describe_table"))
  \/ ToolSelectRows(Drawn("select_rows"))
  \/ ToolInsertRow(Drawn("insert_row"))
  \/ ToolUpdateRows(Drawn("update_rows"))
  \/ ToolDeleteRows(Drawn("delete_rows"))
  \/ Drawn("list_databases") # {} /\ ToolListDatabases
  \/ ToolUseDatabase(Drawn("use_database"))
  \/ ToolExecuteSql(Drawn("execute_sql"))
  \/ Drawn("get_auth_status") # {} /\ getAuthStatus
  \/ Drawn("health") # {} /\ health
  \/ \E c \in BagToSet(inflight) : LogoutEnded(c)
  \/ \E c \in BagToSet(inflight) : UseAnswered(c)
  \/ \E c \in BagToSet(inflight) : ExecRefused(c)
  \/ \E c \in BagToSet(inflight) : ExecConnected(c)
  \/ \E c \in BagToSet(inflight) : ExecUsed(c)
  \/ \E c \in BagToSet(inflight) : ExecAnswered(c)

SpecRows == InitRows /\ [][NextRows]_vars

----------------------------------------------------------------------------
(* execute_sql under load: an authenticated service whose clients send
   execute_sql calls without waiting for one another, up to MaxExec at once,
   more than the pool has connections. *)

MaxExec == 6

PoolExecArgs ==
  {[sql |-> "args.sql", database |-> d, params |-> Absent]
     : d \in {Absent, "ghost", "a.b"}}

(* the execute_sql handler and lines 390-393, up to getConnection *)
ExecArrive(A) ==
  \E args \in A :
    LET parsed == parseExecuteSqlArgs(args)
        auth == ensureAuthenticated(pool)
    IN  /\ parsed.ok /\ auth.ok
        /\ BagCardinality(inflight) < MaxExec
        /\ inflight' = Suspend(Call("executeSql", "getConnection", pool,
                                    parsed.v.database, NoAuthArgs, Absent, Absent))
        /\ ev' = Waiting
        /\ UNCHANGED <<pool, session, pools, activeFrom, input>>

InitPool ==
  /\ pool = 1
  /\ session = H1Shop
  /\ pools = <<OpenPool("shop")>>
  /\ inflight = EmptyBag
  /\ activeFrom = "authMySql"
  /\ input = NoInput
  /\ ev = Waiting

ExecConnects == \E c \in BagToSet(inflight) : ExecConnected(c)
ExecUses == \E c \in BagToSet(inflight) : ExecUsed(c)
ExecAnswers == \E c \in BagToSet(inflight) : ExecAnswered(c)

NextPool ==
  \/ ExecArrive(PoolExecArgs)
  \/ ExecConnects
  \/ ExecUses
  \/ ExecAnswers

SpecPool == InitPool /\ [][NextPool]_vars

----------------------------------------------------------------------------
(* The request handlers of the server: a request's result or failure as it
   leaves the handler *)

Uris ==
  {"mysql://table/shop/users", "mysql://table/ghost/users",
   "mysql://table/shop/a.b", "mysql://table/app/Name",
   "mysql://view/shop/users", "mysql://table/shop"}

(* uri.match(/^mysql:\/\/table\/([^/]+)\/([^/]+)$/): the two groups *)
Match(uri) ==
  CASE uri = "mysql://table/shop/users" -> <<"shop", "users">>
    [] uri = "mysql://table/ghost/users" -> <<"ghost", "users">>
    [] uri = "mysql://table/shop/a.b" -> <<"shop", "a.b">>
    [] uri = "mysql://table/app/Name" -> <<"app", "Name">>
    [] OTHER -> <<>>

listResources(pl, sess) == listTables(SessionDatabase(sess), pl, sess)

readResource(uri, pl, sess) ==
  LET match == Match(uri) IN
    IF match = <<>> THEN Fail(Err("ValidationError", "InvalidResourceURI"))
    ELSE describeTable([database |-> match[1], table |-> match[2]], pl, sess)

(* callTool(name, args): the handler registered under the name, or the
   failure for a name that has none *)
callTool(name, args) ==
  CASE name = "list_tables" ->
         LET parsed == optionalString(args.database, "database") IN
           Handle(parsed, listTables(parsed.v, pool, session))
    [] name = "describe_table" ->
         LET table == requireString(args.table, "table")
             database == optionalString(args.database, "database")
             parsed == IF ~table.ok THEN table
                       ELSE IF ~database.ok THEN database
                       ELSE Ok([table |-> table.v, database |-> database.v])
         IN  Handle(parsed, describeTable(parsed.v, pool, session))
    [] name = "delete_rows" ->
         LET parsed == parseDeleteRowsArgs(args) IN
           Handle(parsed, deleteRows(parsed.v, pool, session))
    [] OTHER -> Fail(Err("Error", "UnknownTool"))

(* serializeError(error): the type and the message of what was thrown *)
serializeError(res) == [type |-> res.kind, message |-> res.msg]

NoError == [type |-> "", message |-> ""]

(* what leaves a handler: returned content (with isError or not) or an
   exception of some class, and the serialized error it carries *)
Reply(framed, isError, thrown, error) ==
  [framed |-> framed, isError |-> isError, thrown |-> thrown, error |-> error]

Served(op, args, out, reply) ==
  ev' = Event(op, args, [out.res EXCEPT !.v = reply], out.stmt) /\ Quiet

CallToolRequest(A) ==
  \E request \in A :
    LET out == callTool(request.name, request.arguments) IN
      Served("tools/call", request, out,
             IF out.res.ok THEN Reply("content", FALSE, "", NoError)
             ELSE Reply("content", TRUE, "", serializeError(out.res)))

ListResourcesRequest ==
  LET out == listResources(pool, session) IN
    Served("resources/list", NoAuthArgs, out,
           IF out.res.ok THEN Reply("resources", FALSE, "", NoError)
           ELSE Reply("exception", FALSE, out.res.kind, NoError))

ReadResourceRequest(A) ==
  \E request \in A :
    LET out == readResource(request.uri, pool, session) IN
      Served("resources/read", request, out,
             IF out.res.ok THEN Reply("contents", FALSE, "", NoError)
             ELSE Reply("exception", FALSE, "Error", serializeError(out.res)))

ToolRequests ==
  {[name |-> n, arguments |-> a] : n \in {"list_tables", "not_a_tool"}, a \in RawListArgs}
  \cup {[name |-> "describe_table", arguments |-> a] : a \in RawDescribeArgs}
  \cup {[name |-> "delete_rows", arguments |-> a] : a \in RawDeleteArgs}

ServeCalls ==
  CallsOf("tools/call", ToolRequests) \cup CallsOf("resources/list", {NoAuthArgs})
  \cup CallsOf("resources/read", {[uri |-> u] : u \in Uris})

InitServe ==
  /\ \E st \in SessionStates :
       /\ pool = st.pool
       /\ session = st.session
       /\ pools = st.pools
       /\ inflight = st.inflight
       /\ activeFrom = st.activeFrom
  /\ input \in ServeCalls
  /\ ev = Waiting

NextServe ==
  \/ CallToolRequest(Drawn("tools/call"))
  \/ Drawn("resources/list") # {} /\ ListResourcesRequest
  \/ ReadResourceRequest(Drawn("resources/read"))

SpecServe == InitServe /\ [][NextServe]_vars

----------------------------------------------------------------------------
(* What the claims speak of *)

NineTools ==
  {"list_databases", "use_database", "list_tables", "describe_table", "select_rows",
   "insert_row", "update_rows", "delete_rows", "execute_sql"}

Sent == ev.stmt.kind # "none"

Failed == ~ev.res.ok /\ ev.res.kind # "pending"

(* whether the tool's argument validator lets the arguments of ev through *)
ValidArgs ==
  CASE ev.op = "select_rows" -> parseSelectRowsArgs(ev.args).ok
    [] ev.op = "insert_row" -> parseInsertRowArgs(ev.args).ok
    [] ev.op = "update_rows" -> parseUpdateRowsArgs(ev.args).ok
    [] ev.op = "delete_rows" -> parseDeleteRowsArgs(ev.args).ok
    [] ev.op = "execute_sql" -> parseExecuteSqlArgs(ev.args).ok
    [] ev.op = "use_database" -> requireString(ev.args.database, "database").ok
    [] ev.op = "list_tables" -> optionalString(ev.args.database, "database").ok
    [] ev.op = "describe_table" ->
         /\ requireString(ev.args.table, "table").ok
         /\ optionalString(ev.args.database, "database").ok
    [] OTHER -> TRUE

(* C1, as claimed: with no Session installed, a call of any of the nine tools,
   whatever its arguments, fails with AuthError and sends no statement. *)
C1_AuthErrorWhateverArgs ==
  (pool = 0 /\ ev.op \in NineTools) => (Failed /\ ev.res.kind = "AuthError" /\ ~Sent)

(* C1, amended: with no Session installed, a call of any of the nine tools
   sends no statement and fails: with AuthError when the tool's validator
   accepts the arguments, with ValidationError when it rejects them. *)
C1_AuthErrorForValidArgs ==
  (pool = 0 /\ ev.op \in NineTools) =>
    /\ Failed
    /\ ~Sent
    /\ ev.res.kind = IF ValidArgs THEN "AuthError" ELSE "ValidationError"

(* a tool refused with AuthError after the logout returned *)
C1_Witness ==
  /\ pool = 0 /\ Len(pools) >= 1
  /\ ev.op = "execute_sql" /\ ev.res.kind = "AuthError"

(* C2, as claimed: in every state the service holds a pool handle only while
   that pool is open, and get_auth_status reports authenticated exactly then. *)
C2_SessionIffPoolOpen ==
  /\ pool # 0 => pools[pool].st = "open"
  /\ ev.op = "getAuthStatus" => (ev.res.v.authenticated <=> PoolOpen(pool))

(* C3: an authMySql call that fails returns AuthError and leaves no pool and
   no session installed, whatever was installed before it; get_auth_status
   then reports authenticated false and no session. *)
C3_FailedAuthClearsSession ==
  /\ (ev.op = "authMySql" /\ Failed) =>
       (ev.res.kind = "AuthError" /\ pool = 0 /\ session = NoSession)
  /\ (ev.op = "getAuthStatus" /\ pool = 0) =>
       (~ev.res.v.authenticated /\ ev.res.v.session = NoSession)

(* a re-authentication failed: the pool of the earlier Session was ended by it *)
C3_Witness ==
  /\ ev.op = "authMySql" /\ ev.res.kind = "AuthError"
  /\ Len(pools) = 2 /\ pools[1].st = "closed"
  /\ inflight = EmptyBag

(* C4, as claimed: once no authenticate or logout call is in progress, every
   pool that was created and not ended is the pool the service holds. *)
C4_OnlyTheHeldPoolIsOpen ==
  inflight = EmptyBag =>
    \A i \in 1..Len(pools) : pools[i].st = "open" => i = pool

(* the positions of the WHERE keyword in the statement of ev that are followed
   by a condition on a column *)
WherePositions ==
  {i \in 1..Len(ev.stmt.text) - 1 :
     ev.stmt.text[i] = Kw("WHERE") /\ ev.stmt.text[i + 1].t = "id"}

EmptyOrMissing(where) == ~where.some \/ (~where.bad /\ Len(where.m) = 0)

(* C5: every UPDATE or DELETE statement sent carries a WHERE clause with at
   least one condition; update_rows and delete_rows with an empty or missing
   where fail with ValidationError and send nothing, at the validator in every
   state and at the gateway whenever a pool is installed (the gateway's check
   of the pool comes first and gives AuthError). *)
C5_NoUnfilteredMutation ==
  /\ (Sent /\ ev.stmt.kind \in {"UPDATE", "DELETE"}) => WherePositions # {}
  /\ (ev.op \in {"update_rows", "delete_rows"} /\ EmptyOrMissing(ev.args.where)) =>
       (Failed /\ ev.res.kind = "ValidationError" /\ ~Sent)
  /\ (ev.op \in {"updateRows", "deleteRows"} /\ EmptyOrMissing(ev.args.where)) =>
       /\ Failed /\ ~Sent
       /\ ev.res.kind = IF pool = 0 THEN "AuthError" ELSE "ValidationError"

(* the gateway refuses an update whose where is the empty mapping although
   everything else about the call is in order *)
C5_Witness ==
  /\ ev.op = "updateRows" /\ ev.args.where = Map(<<>>)
  /\ PoolOpen(pool) /\ ev.args.table = "users" /\ ev.args.data = OneData
  /\ ev.res.msg = "WhereEmpty"

(* what the select_rows tool answers to the arguments of ev with where left out *)
WhereOmitted ==
  LET args == [ev.args EXCEPT !.where = NoMap]
      parsed == parseSelectRowsArgs(args)
  IN  Handle(parsed, selectRows(parsed.v, pool, session))

(* C6, as claimed: select_rows with where {} does exactly what it does with
   where omitted, and so succeeds as an unfiltered SELECT whenever that does. *)
C6_EmptyWhereSelectsAll ==
  (ev.op = "select_rows" /\ ev.args.where = Map(<<>>)) =>
    (ev.res = WhereOmitted.res /\ ev.stmt = WhereOmitted.stmt)

(* C6, amended: the select_rows tool refuses where {} with ValidationError and
   sends no statement; it is the gateway's selectRows that takes an empty
   mapping for an omitted one: the same outcome and the same statement, a
   SELECT with no WHERE clause. *)
C6_EmptyWhereRefusedByTool ==
  /\ (ev.op = "select_rows" /\ ev.args.where = Map(<<>>)) =>
       (Failed /\ ev.res.kind = "ValidationError" /\ ~Sent)
  /\ (ev.op = "selectRows" /\ ev.args.where = Map(<<>>)) =>
       LET omitted == selectRows([ev.args EXCEPT !.where = NoMap], pool, session)
       IN  /\ ev.res = omitted.res /\ ev.stmt = omitted.stmt
           /\ Sent => (ev.stmt.kind = "SELECT" /\ WherePositions = {})

(* the tool refuses where {} in a call that succeeds when where is left out *)
C6_Witness ==
  /\ ev.op = "select_rows" /\ ev.args.where = Map(<<>>)
  /\ ev.res.msg = "WhereEmptyObject"
  /\ WhereOmitted.res.ok /\ WhereOmitted.stmt.kind = "SELECT"

TableOps == {"describeTable", "selectRows", "insertRow", "updateRows", "deleteRows",
             "describe_table", "select_rows", "insert_row", "update_rows", "delete_rows"}

DatabaseOps == TableOps \cup {"listTables", "list_tables"}

(* the call of ev reached the resolution of its database: the validator let
   it through, a pool is installed and its table is an identifier *)
ReachedResolution ==
  /\ ev.op \in DatabaseOps
  /\ ValidArgs
  /\ pool # 0
  /\ ev.op \in TableOps => IsIdentifier(ev.args.table)

(* C7: a statement of list_tables, describe_table, select_rows, insert_row,
   update_rows or delete_rows targets the explicit database argument when one
   is given and the Session's active database otherwise; with neither, the
   call fails with ValidationError (no database selected) and sends nothing;
   and no such call changes the Session. *)
C7_ExplicitThenActive ==
  /\ [](/\ (ev.op \in DatabaseOps /\ Sent) =>
             ev.stmt.target = IF ev.args.database # Absent
                                THEN ev.args.database
                                ELSE session.database
        /\ (ReachedResolution /\ ev.args.database = Absent
              /\ SessionDatabase(session) = Absent) =>
             (Failed /\ ~Sent /\ ev.res.kind = "ValidationError"
                /\ ev.res.msg = "NoDatabase"))
  /\ [][ev'.op \in DatabaseOps => session' = session]_vars

(* a select with an explicit database went there and not to the active one *)
C7_Witness ==
  /\ ev.op = "selectRows" /\ Sent
  /\ ev.args.database = "app" /\ session.database = "shop"
  /\ ev.stmt.target = "app"

(* C8, as claimed: an execute_sql call that omits database runs its statement
   in the Session's active database, also after an earlier call named another
   one, and returns as its database field the database the statement ran in
   (here where the active database is the one the Session was authenticated
   with, before and after the call). *)
C8_OverrideForThatCallOnly ==
  (/\ ev.op = "executeSql" /\ ev.res.ok
   /\ ev.args.database = Absent
   /\ ev.args.began = "authMySql" /\ activeFrom = "authMySql") =>
    /\ ev.res.v.ranIn = session.database
    /\ ev.res.v.database = ev.res.v.ranIn

(* C9, as claimed: once use_database has set the active database, a statement
   of an operation that omits database runs against the active database. *)
C9_UseDatabaseGoverns ==
  /\ (/\ activeFrom = "useDatabase" /\ Sent
      /\ ev.op \in {"list_tables", "describe_table", "select_rows", "insert_row",
                    "update_rows", "delete_rows"}
      /\ ev.args.database = Absent) =>
       ev.stmt.target = session.database
  /\ (/\ activeFrom = "useDatabase" /\ Sent
      /\ ev.op = "executeSql" /\ ev.stmt.kind = "SQL"
      /\ ev.args.database = Absent /\ ev.args.began = "useDatabase") =>
       ev.stmt.target = session.database

(* C10, as claimed: the active database of the Session is a database of the
   Session's server; use_database fails with ValidationError on a name that
   is no identifier and with ApiError on a name the catalog does not hold. *)
C10_ActiveDatabaseExists ==
  /\ (session.some /\ session.database # Absent) =>
       session.database \in Catalog(session.host)
  /\ (ev.op = "use_database" /\ pool # 0 /\ ~IsIdentifier(ev.args.database)) =>
       (Failed /\ ev.res.kind = "ValidationError")
  /\ (ev.op = "useDatabase" /\ ev.res.msg = "DatabaseNotFound") =>
       ev.res.kind = "ApiError"

(* the connections of pool pl that are checked out *)
CheckedOut(pl) == pools[pl].total - BagCardinality(pools[pl].idle)

(* the executeSql calls that hold a connection of pool pl *)
Holding(pl) ==
  LET holders == {c \in BagToSet(inflight) :
                    c.op = "executeSql" /\ c.p = pl /\ c.pc \in {"use", "query"}}
  IN  BagCardinality([c \in holders |-> inflight[c]])

(* a call waits for a connection and the pool has none to give *)
Starved ==
  /\ \E c \in BagToSet(inflight) : c.op = "executeSql" /\ c.pc = "getConnection"
  /\ Acquired(pool) = {}

(* C11: the connections checked out of the pool are exactly those held by
   execute_sql calls still running, one each, whichever way the earlier calls
   ended (rows, a failed USE, an invalid database identifier, a failed
   statement), so none is left checked out once the calls have completed; and
   whenever a caller waits on an exhausted pool, every connection is held by a
   running call whose next step can be taken, so that the waiting caller is
   served once one of them ends. *)
C11_ReleasedOnEveryPath ==
  /\ pools[pool].total <= connectionLimit
  /\ CheckedOut(pool) = Holding(pool)
  /\ inflight = EmptyBag => CheckedOut(pool) = 0
  /\ Starved => /\ Holding(pool) = connectionLimit
                /\ ENABLED (ExecUses \/ ExecAnswers)

(* the pool is exhausted with a caller queued, after calls of every kind of
   ending have released their connections *)
C11_Witness ==
  /\ Starved
  /\ pools[pool].total = connectionLimit
  /\ Holding(pool) = connectionLimit

Requests == {"tools/call", "resources/list", "resources/read"}

(* C12: every failure raised while serving a tool call, a resource listing or
   a resource read leaves the request handler as returned content marked as an
   error that carries the kind and the message of the failure, never as an
   exception; and a tool call with an unknown name fails with the unknown-tool
   error. *)
C12_FailuresLeaveAsEnvelopes ==
  /\ (ev.op \in Requests /\ Failed) =>
       /\ ev.res.v.framed = "content" /\ ev.res.v.isError
       /\ ev.res.v.error = [type |-> ev.res.kind, message |-> ev.res.msg]
  /\ (ev.op = "tools/call" /\ ev.args.name = "not_a_tool") =>
       (Failed /\ ev.res.msg = "UnknownTool")

(* the punctuation the gateway writes between the fragments of a statement *)
Punctuation == {"(", ")", ",", "."}

Generated == {"SELECT", "INSERT", "UPDATE", "DELETE", "USE"}

(* the tokens of the statement of ev that are identifiers, keywords of the
   caller's choosing, and placeholders *)
TokensOf(kind) == {i \in 1..Len(ev.stmt.text) : ev.stmt.text[i].t = kind}

Validated ==
  /\ \A i \in TokensOf("id") : IsIdentifier(ev.stmt.text[i].v)
  /\ \A i \in TokensOf("raw") : ev.stmt.text[i].v \in Punctuation \cup {"ASC", "DESC"}
  /\ Cardinality(TokensOf("ph")) = Len(ev.stmt.values)

(* C13: in every statement the gateway generates for the row operations and
   for the scoped USE, each interpolated fragment passed the identifier
   pattern or is ASC or DESC, and there is one placeholder for every bound
   value. *)
C13_OnlyValidatedFragments ==
  ev.stmt.kind \in Generated => Validated

(* select_rows, at the tool or at the gateway, with offset and without limit *)
OffsetAlone ==
  /\ ev.op \in {"select_rows", "selectRows"}
  /\ ev.args.offset.some /\ ~ev.args.limit.some

(* C14, as claimed: select_rows with offset but no limit fails with
   ValidationError and sends no statement, in every session state. *)
C14_OffsetAloneIsValidationError ==
  OffsetAlone => (Failed /\ ev.res.kind = "ValidationError" /\ ~Sent)

(* C14, amended: select_rows with offset but no limit always fails and sends
   no statement; the failure is ValidationError whenever a pool is installed
   or the validator rejects the arguments, and AuthError when no pool is
   installed and the arguments reach the gateway. *)
C14_OffsetAloneAlwaysFails ==
  OffsetAlone =>
    /\ Failed
    /\ ~Sent
    /\ ev.res.kind = IF pool = 0 /\ (ev.op = "selectRows" \/ ValidArgs)
                       THEN "AuthError" ELSE "ValidationError"

(* the gateway refuses offset without limit for a call in order otherwise *)
C14_Witness ==
  /\ OffsetAlone /\ ev.op = "select_rows" /\ ValidArgs
  /\ PoolOpen(pool)
  /\ ev.res.msg = "OffsetRequiresLimit"

(* insert_row or update_rows, at the tool or at the gateway, with data {} *)
DataEmpty ==
  /\ ev.op \in {"insert_row", "update_rows", "insertRow", "updateRows"}
  /\ ev.args.data = Map(<<>>)

(* C15: insert_row and update_rows with data {} fail and send no statement,
   with ValidationError whenever a pool is installed (with no pool the call is
   refused earlier, with AuthError when its arguments pass the validator); and
   every INSERT or UPDATE sent names at least one column of data. *)
C15_EmptyDataRefused ==
  /\ DataEmpty => /\ Failed /\ ~Sent
                  /\ pool # 0 => ev.res.kind = "ValidationError"
                  /\ ev.res.kind \in {"ValidationError", "AuthError"}
  /\ (Sent /\ ev.stmt.kind \in {"INSERT", "UPDATE"}) =>
       /\ Len(ev.args.data.m) >= 1
       /\ Len(ev.stmt.values) >= Len(ev.args.data.m)

(* the gateway refuses an insert of no columns into a table it could reach *)
C15_Witness ==
  /\ ev.op = "insert_row" /\ ev.args.data = Map(<<>>)
  /\ PoolOpen(pool) /\ ev.args.table = "users"
  /\ ev.res.msg = "DataEmpty"

(* C16: every logout, the one made with no Session too, succeeds with
   authenticated false and leaves no pool handle and no Session; and when a
   logout has returned and no other call is running, a further logout changes
   nothing: the state stays as the first call left it and no pool is closed
   again. *)
C16_LogoutIdempotent ==
  /\ ev.op = "logout" =>
       /\ ev.res.ok /\ ~ev.res.v.authenticated
       /\ pool = 0 /\ session = NoSession
  /\ (ev.op = "logout" /\ inflight = EmptyBag) =>
       (ENABLED LogoutBegin /\ ~ENABLED <<LogoutBegin>>_vars)

(* a logout that closed the pool of a Session has returned, and one made with
   no Session before any authentication has too *)
C16_Witness ==
  /\ ev.op = "logout" /\ inflight = EmptyBag
  /\ Len(pools) >= 1 /\ \A i \in 1..Len(pools) : pools[i].st = "closed"

WhereOps == {"selectRows", "updateRows", "deleteRows"}

(* the WHERE clause built for the filter of the call of ev, and its tokens *)
Built == buildWhereClause(ev.args.where)

IsKey(token) == token.t = "id"
IsPlaceholder(token) == token.t = "ph"
IsAnd(token) == token = Kw("AND")

(* where the i-th condition starts in the clause: after WHERE and after the
   conditions and ANDs before it *)
RECURSIVE StartOf(_, _)
StartOf(m, i) ==
  IF i = 1 THEN 2
  ELSE StartOf(m, i - 1) + (IF m[i - 1].val.k = "null" THEN 2 ELSE 3) + 1

RECURSIVE Bound(_)
Bound(m) ==
  IF Len(m) = 0 THEN <<>>
  ELSE (IF m[1].val.k = "null" THEN <<>> ELSE <<m[1].val>>) \o Bound(Tail(m))

(* C17: the WHERE builder gives no SQL and no values for an absent or empty
   filter; for a filter whose keys are identifiers it gives WHERE, then one
   condition per entry in order joined by AND (key IS NULL for a null value,
   key = ? otherwise), binds exactly the non-null values in order, and has as
   many placeholders as bound values; the statement sent ends with that
   clause and those values. *)
C17_WhereClauseShape ==
  ev.op \in WhereOps =>
    LET m == ev.args.where.m
        sql == Built.sql
    IN  /\ EmptyOrMissing(ev.args.where) => (Built.ok /\ sql = <<>> /\ Built.values = <<>>)
        /\ (~EmptyOrMissing(ev.args.where) /\ BadKeys(m) = {}) =>
             /\ Built.ok
             /\ sql[1] = Kw("WHERE")
             /\ Len(SelectSeq(sql, IsKey)) = Len(m)
             /\ Len(SelectSeq(sql, IsAnd)) = Len(m) - 1
             /\ \A i \in 1..Len(m) :
                  LET p == StartOf(m, i) IN
                    /\ sql[p] = Id(m[i].key)
                    /\ IF m[i].val.k = "null"
                         THEN sql[p + 1] = Kw("IS NULL")
                         ELSE sql[p + 1] = Kw("=") /\ sql[p + 2] = Ph
                    /\ i > 1 => sql[p - 1] = Kw("AND")
             /\ Built.values = Bound(m)
             /\ Len(SelectSeq(sql, IsPlaceholder)) = Len(Built.values)
        /\ (Sent /\ ev.op \in {"updateRows", "deleteRows"}) =>
             /\ SubSeq(ev.stmt.text, Len(ev.stmt.text) - Len(sql) + 1, Len(ev.stmt.text)) = sql
             /\ SubSeq(ev.stmt.values, Len(ev.stmt.values) - Len(Built.values) + 1,
                       Len(ev.stmt.values)) = Built.values

(* a DELETE was sent for a filter with a null and a non-null value *)
C17_Witness ==
  /\ ev.op = "deleteRows" /\ Sent
  /\ ev.args.where = W3
  /\ Len(Built.values) = 2

(* C18: when a useDatabase call resumes from its catalog lookup and the pool
   installed is no longer the one the lookup was sent to (an authenticate or
   a logout came in between), the call leaves the Session as it finds it: it
   fails, or at least writes nothing into the newer Session. *)
C18_UseDatabaseKeepsToItsSession ==
  [][\A c \in BagToSet(inflight) :
       (c.op = "useDatabase" /\ c.pc = "lookup" /\ inflight' = Resume(c) /\ pool # c.p)
         => session' = session]_vars

(* C19: in every state, between the awaits of overlapping calls too, a pool
   handle is held exactly when a Session is held, and what getAuthStatus
   reports as authenticated agrees with the session it reports. *)
C19_PoolIffSession ==
  /\ pool # 0 <=> session.some
  /\ ev.op = "getAuthStatus" => (ev.res.v.authenticated <=> ev.res.v.session.some)

(* getAuthStatus was asked while a logout waits for end() and a useDatabase
   waits for its lookup *)
C19_Witness ==
  /\ ev.op = "getAuthStatus" /\ ev.res.v.authenticated
  /\ \E c \in BagToSet(inflight) : c.op = "logout"
  /\ \E c \in BagToSet(inflight) : c.op = "useDatabase"

(* C20: a step changes the Session or the pool installed only when it is the
   end of an authMySql or logout call or a successful end of a useDatabase
   call; no step of get_auth_status, health, list_databases, list_tables,
   describe_table, select_rows, insert_row, update_rows, delete_rows or
   execute_sql changes either, whether the call succeeds or fails. *)
C20_OnlySessionCallsChangeTheSession ==
  [][(session' # session \/ pool' # pool) =>
       \/ ev'.op \in {"authMySql", "logout"}
       \/ ev'.op = "useDatabase" /\ ev'.res.ok]_vars

(* a select_rows call read from another database than the active one and
   the Session still names the active one *)
C20_Witness ==
  /\ ev.op = "select_rows" /\ Sent
  /\ ev.stmt.target = "app" /\ session.database = "shop"

====
